---- MODULE Spec2Model ----
(***************************************************************************)
(* Randomised placement of the selected objects inside a circle or a       *)
(* rectangle, keeping clear of exclusion zones and of each other.          *)
(*                                                                         *)
(* The five scripts are modelled, told apart by cfg.variant:               *)
(*   "Addon"        DistributeAndDuplicateObjectsAddon.py (linear scan)     *)
(*   "WithinCircle" DistributeAndDuplicateWithinCircle.py (grid)            *)
(*   "WithinSquare" DistributeAndDuplicateWithinSquare.py (grid)            *)
(*   "DistributeWithinCircle" DistributeWithinCircle.py (linear scan,       *)
(*                            no duplicates)                                *)
(*   "DistributeWithinSquare" DistributeWithinSquare.py (linear scan,       *)
(*                            no duplicates)                                *)
(*                                                                         *)
(* Coordinates are exact integers on a small lattice; a point is <<x, y>>. *)
(* Every comparison of a length with a number is made on the squares, and  *)
(* every halving is cleared by doubling both sides, so no comparison of    *)
(* the source is rounded.  Floating-point rounding itself is not modelled. *)
(***************************************************************************)
EXTENDS Integers, Sequences, FiniteSets, TLC

\* ------------------------------------------------------------------ bounds
\* Stand-in for the 1000 of "for attempt in range(1000)".
AttemptBudget == 2
\* Longest list of selected objects.
MaxItems == 2
\* Largest num_duplicates.
MaxDuplicates == 2
\* Largest number of requested copies of one run.
MaxCopies == 3

\* --------------------------------------------------------- program constants
\* grid_size = area_radius / 50
CircleGridDivisor == 50
\* grid_size = max(extent.x, extent.y) / 100
SquareGridDivisor == 100

VARIABLES
    cfg,        \* the call's arguments and bpy.context.selected_objects
    pc,         \* "start", "orig" / "dup" (the attempt loop in hand), "done",
                \* or "error" once ZeroDivisionError has left the function
    obj_index,  \* position of obj in selected_objects, from 1
    dup_index,  \* the _ of "for _ in range(num_duplicates)"
    attempt,    \* passes of the attempt loop in hand that did not break
    position,   \* the loop's variable position: the sample drawn last in the
                \* loop in hand; NoPosition once the loop has run out, where
                \* the value is not read again
    positions,  \* the add-on's positions list
    grid,       \* the scripts' grid: cell -> list of (pos, dims)
    outcomes,   \* one record per copy dealt with: placed where, or failed
    sampled,    \* sampling iterations run so far
    location,   \* obj.location as the run has set it, per selected object
    linked      \* the copies linked to the collection

vars == <<cfg, pc, obj_index, dup_index, attempt, position, positions, grid,
          outcomes, sampled, location, linked>>

\* ---------------------------------------------------------------- geometry
Origin == <<0, 0>>
NoPosition == <<>>

\* The candidate positions the random source is let to produce.
Lattice == {<<0, 0>>, <<3, 0>>, <<-3, 0>>, <<0, 4>>, <<5, 0>>, <<8, 0>>}

\* obj.dimensions (x, y) of the objects that may be selected.
Dimensions == {[x |-> 2, y |-> 2], [x |-> 6, y |-> 2]}

Max(a, b) == IF a >= b THEN a ELSE b

\* Squared planar length of p - q.
Dist2(p, q) == (p[1] - q[1]) * (p[1] - q[1]) + (p[2] - q[2]) * (p[2] - q[2])

\* length < r, length <= r and length > r for a length given by its square.
LengthLess(d2, r) == r > 0 /\ d2 < r * r
LengthAtMost(d2, r) == r >= 0 /\ d2 <= r * r
LengthMore(d2, r) == r < 0 \/ d2 > r * r

\* a <= v <= b
Within(a, v, b) == a <= v /\ v <= b

\* A value random.uniform(a, b) can return: a + (b - a) * random().
Uniform(a, v, b) == Within(a, v, b) \/ Within(b, v, a)

\* Python's floor division a // b for b # 0.
FloorDiv(a, b) == IF b > 0 THEN a \div b ELSE (-a) \div (-b)

\* ------------------------------------------------------------ configurations
\* One exclusion zone of a script: (center, radius) or (min_corner, max_corner).
CircleZone(c, r) == [center |-> c, radius |-> r, min |-> Origin, max |-> Origin]
SquareZone(lo, hi) == [center |-> Origin, radius |-> 0, min |-> lo, max |-> hi]

\* All sequences over S of length at most n.
RECURSIVE SeqsUpTo(_, _)
SeqsUpTo(S, n) ==
    IF n = 0 THEN {<<>>}
    ELSE LET shorter == SeqsUpTo(S, n - 1)
         IN  shorter \cup {Append(s, e) : s \in {t \in shorter : Len(t) = n - 1}, e \in S}

\* (selected_objects, num_duplicates) within the bounds.
Workloads ==
    {w \in SeqsUpTo(Dimensions, MaxItems) \X (0 .. MaxDuplicates) :
        Len(w[1]) * (1 + w[2]) <= MaxCopies}

\* padding: the operator's property has min=0.0; the scripts default to 0.1.
AddonPaddings == {0, 1}
ScriptPaddings == {1}

BaseConfig ==
    [variant |-> "Addon", is_circle |-> TRUE, distribute_only |-> FALSE,
     area_center |-> Origin, area_radius |-> 0, area_size |-> <<0, 0>>,
     area_min |-> Origin, area_max |-> Origin,
     zone_center |-> Origin, zone_radius |-> 0, zone_size |-> <<0, 0>>,
     exclusion_zones |-> <<>>,
     num_duplicates |-> 0, padding |-> 0, selected_objects |-> <<>>]

WithWorkload(c, w, p, only) ==
    [c EXCEPT !.selected_objects = w[1], !.num_duplicates = w[2],
              !.padding = p, !.distribute_only = only]

\* The operator's call: both centres are Vector((0, 0, 0)), the sizes are
\* properties with min=0.1, the zone has the form of the area.
AddonShapes ==
    {[BaseConfig EXCEPT !.is_circle = TRUE, !.area_radius = 5, !.zone_radius = zr] :
        zr \in {1, 5}}
    \cup
    {[BaseConfig EXCEPT !.is_circle = FALSE, !.area_size = <<6, 2>>, !.zone_size = zs] :
        zs \in {<<2, 2>>, <<6, 2>>}}

\* The script takes any radius and any list of zones.
WithinCircleShapes ==
    {[BaseConfig EXCEPT !.variant = "WithinCircle", !.is_circle = TRUE,
                        !.area_radius = a[1], !.exclusion_zones = a[2]] :
        a \in {<<-5, <<>>>>, <<0, <<>>>>,
               <<5, <<CircleZone(Origin, 5)>>>>,
               <<5, <<CircleZone(Origin, 1), CircleZone(<<3, 0>>, 2)>>>>,
               <<200, <<CircleZone(<<0, 4>>, 4)>>>>}}

\* The script takes any two corners and any list of zones.
WithinSquareShapes ==
    {[BaseConfig EXCEPT !.variant = "WithinSquare", !.is_circle = FALSE,
                        !.area_min = a[1], !.area_max = a[2],
                        !.exclusion_zones = a[3]] :
        a \in {<<(<<2, -200>>), (<<402, 200>>), <<>>>>,
               <<(<<-1, -1>>), (<<3, 4>>), <<SquareZone(<<-1, -1>>, <<1, 1>>)>>>>,
               <<(<<-1, -1>>), (<<3, 4>>),
                 <<SquareZone(<<0, 0>>, <<0, 0>>), SquareZone(<<2, -1>>, <<4, 1>>)>>>>,
               <<Origin, Origin, <<>>>>,
               <<(<<3, 4>>), (<<-1, -1>>), <<>>>>}}

\* distribute_objects_in_area of DistributeWithinCircle.py.
DistributeWithinCircleShapes ==
    {[BaseConfig EXCEPT !.variant = "DistributeWithinCircle", !.is_circle = TRUE,
                        !.area_radius = 200, !.exclusion_zones = z] :
        z \in {<<>>, <<CircleZone(Origin, 5)>>}}

\* distribute_objects_in_area of DistributeWithinSquare.py.
DistributeWithinSquareShapes ==
    {[BaseConfig EXCEPT !.variant = "DistributeWithinSquare", !.is_circle = FALSE,
                        !.area_min = <<-4, -1>>, !.area_max = <<5, 1>>,
                        !.exclusion_zones = z] :
        z \in {<<>>, <<SquareZone(<<-1, -1>>, <<1, 1>>)>>}}

\* The two scripts that make no duplicates have no num_duplicates.
DistributeWorkloads == {w \in Workloads : w[2] = 0}

Configs ==
    {WithWorkload(c, w, p, only) :
        c \in AddonShapes, w \in Workloads, p \in AddonPaddings, only \in BOOLEAN}
    \cup
    {WithWorkload(c, w, p, FALSE) :
        c \in WithinCircleShapes \cup WithinSquareShapes, w \in Workloads,
        p \in ScriptPaddings}
    \cup
    {WithWorkload(c, w, p, FALSE) :
        c \in DistributeWithinCircleShapes \cup DistributeWithinSquareShapes,
        w \in DistributeWorkloads, p \in ScriptPaddings}

\* ------------------------------------------------------------------ the code
\* The scripts that keep a grid; the other three scan the positions list.
uses_grid(c) == c.variant \in {"WithinCircle", "WithinSquare"}

\* grid_size as the fraction GridNum / GridDen.
GridNum(c) ==
    IF c.variant = "WithinCircle" THEN c.area_radius
    ELSE Max(c.area_max[1] - c.area_min[1], c.area_max[2] - c.area_min[2])

GridDen(c) ==
    IF c.variant = "WithinCircle" THEN CircleGridDivisor ELSE SquareGridDivisor

\* Mutant of FloorDiv: the quotient is cut towards zero, int(a / b).
TruncDiv(a, b) ==
    LET q == (IF a < 0 THEN -a ELSE a) \div (IF b < 0 THEN -b ELSE b)
    IN  IF (a < 0) # (b < 0) THEN -q ELSE q

\* Mutant of grid_cell: (int(pos.x / grid_size), int(pos.y / grid_size)).
grid_cell_truncated(c, pos) ==
    <<TruncDiv(pos[1] * GridDen(c), GridNum(c)), TruncDiv(pos[2] * GridDen(c), GridNum(c))>>

\* (int(pos.x // grid_size), int(pos.y // grid_size)), grid_size # 0
grid_cell(c, pos) ==
    <<FloorDiv(pos[1] * GridDen(c), GridNum(c)), FloorDiv(pos[2] * GridDen(c), GridNum(c))>>

\* Mutant of neighbors: the candidate's own cell alone.
neighbors_own_cell(cell) == {cell}

\* Mutant of neighbors: the offsets start at 0, range(0, 2).
neighbors_forward(cell) == {<<cell[1] + dx, cell[2] + dy>> : dx \in 0 .. 1, dy \in 0 .. 1}

\* [(grid_cell[0] + dx, grid_cell[1] + dy) for dx in range(-1, 2) for dy in range(-1, 2)]
neighbors(cell) == {<<cell[1] + dx, cell[2] + dy>> : dx \in -1 .. 1, dy \in -1 .. 1}

\* Mutant of min_dist_doubled: the existing object's half-size is left out.
min_dist_doubled_own(obj_dimensions, existing_dims, padding) ==
    Max(obj_dimensions.x, obj_dimensions.y) + 2 * padding

\* Twice min_dist.
min_dist_doubled(obj_dimensions, existing_dims, padding) ==
    Max(obj_dimensions.x, obj_dimensions.y) + Max(existing_dims.x, existing_dims.y)
        + 2 * padding

\* dist < min_dist
too_close(pos, obj_dimensions, existing, padding) ==
    LET m == min_dist_doubled(obj_dimensions, existing.dims, padding)
    IN  m > 0 /\ 4 * Dist2(pos, existing.pos) < m * m

\* The add-on's is_inside_area.
is_inside_area(c, pos) ==
    IF c.is_circle
    THEN LengthAtMost(Dist2(pos, c.area_center), c.area_radius)
    ELSE /\ Within(2 * c.area_center[1] - c.area_size[1], 2 * pos[1],
                   2 * c.area_center[1] + c.area_size[1])
         /\ Within(2 * c.area_center[2] - c.area_size[2], 2 * pos[2],
                   2 * c.area_center[2] + c.area_size[2])

\* The add-on's is_inside_exclusion_zone.
is_inside_exclusion_zone(c, pos) ==
    IF c.is_circle
    THEN LengthLess(Dist2(pos, c.zone_center), c.zone_radius)
    ELSE /\ Within(2 * c.zone_center[1] - c.zone_size[1], 2 * pos[1],
                   2 * c.zone_center[1] + c.zone_size[1])
         /\ Within(2 * c.zone_center[2] - c.zone_size[2], 2 * pos[2],
                   2 * c.zone_center[2] + c.zone_size[2])

\* Mutant of circle_zone_excludes: the squared distance against the radius.
circle_zone_excludes_unsquared(zone, pos) == Dist2(pos, zone.center) < zone.radius

\* One pass of "for zone_center, zone_radius in exclusion_zones".
circle_zone_excludes(zone, pos) == LengthLess(Dist2(pos, zone.center), zone.radius)

\* The same pass in DistributeWithinCircle.py: length <= zone_radius.
circle_zone_excludes_inclusive(zone, pos) ==
    LengthAtMost(Dist2(pos, zone.center), zone.radius)

\* One pass of "for zone_min, zone_max in exclusion_zones".
square_zone_excludes(zone, pos) ==
    Within(zone.min[1], pos[1], zone.max[1]) /\ Within(zone.min[2], pos[2], zone.max[2])

\* Mutant of in_some_zone: the loop returns after its first pass.
in_first_zone(c, pos) ==
    /\ Len(c.exclusion_zones) >= 1
    /\ IF c.variant = "WithinCircle"
       THEN circle_zone_excludes(c.exclusion_zones[1], pos)
       ELSE IF c.variant = "DistributeWithinCircle"
       THEN circle_zone_excludes_inclusive(c.exclusion_zones[1], pos)
       ELSE square_zone_excludes(c.exclusion_zones[1], pos)

\* The scripts' exclusion-zone loop.
in_some_zone(c, pos) ==
    \E k \in 1 .. Len(c.exclusion_zones) :
        IF c.variant = "WithinCircle"
        THEN circle_zone_excludes(c.exclusion_zones[k], pos)
        ELSE IF c.variant = "DistributeWithinCircle"
        THEN circle_zone_excludes_inclusive(c.exclusion_zones[k], pos)
        ELSE square_zone_excludes(c.exclusion_zones[k], pos)

\* Mutant of overlaps_positions: only the latest placement is compared.
overlaps_last_position(c, pos, obj_dimensions, plist) ==
    Len(plist) > 0 /\ too_close(pos, obj_dimensions, plist[Len(plist)], c.padding)

\* The loop over the positions list of the linear-scan scripts.
overlaps_positions(c, pos, obj_dimensions, plist) ==
    \E k \in 1 .. Len(plist) : too_close(pos, obj_dimensions, plist[k], c.padding)

\* The loop over the 3x3 neighbourhood of the grid.
overlaps_grid(c, pos, obj_dimensions, g) ==
    \E n \in neighbors(grid_cell(c, pos)) \cap DOMAIN g :
        \E k \in 1 .. Len(g[n]) : too_close(pos, obj_dimensions, g[n][k], c.padding)

\* is_valid_position of the five scripts: "valid", "invalid", or "raise" when
\* pos.x // grid_size divides by zero.
is_valid_position(c, pos, obj_dimensions, plist, g) ==
    IF c.variant = "Addon"
    THEN IF ~is_inside_area(c, pos) THEN "invalid"
         ELSE IF is_inside_exclusion_zone(c, pos) THEN "invalid"
         ELSE IF overlaps_positions(c, pos, obj_dimensions, plist) THEN "invalid"
         ELSE "valid"
    ELSE IF ~uses_grid(c)
    THEN IF c.variant = "DistributeWithinCircle"
              /\ LengthMore(Dist2(pos, c.area_center), c.area_radius) THEN "invalid"
         ELSE IF in_some_zone(c, pos) THEN "invalid"
         ELSE IF overlaps_positions(c, pos, obj_dimensions, plist) THEN "invalid"
         ELSE "valid"
    ELSE IF c.variant = "WithinCircle"
              /\ LengthMore(Dist2(pos, c.area_center), c.area_radius) THEN "invalid"
         ELSE IF in_some_zone(c, pos) THEN "invalid"
         ELSE IF GridNum(c) = 0 THEN "raise"
         ELSE IF overlaps_grid(c, pos, obj_dimensions, g) THEN "invalid"
         ELSE "valid"

\* Mutant of add_to_grid: the cell's list is replaced, not appended to.
add_to_grid_overwrite(c, g, pos, obj_dimensions) ==
    LET cell == grid_cell(c, pos)
        rec == [pos |-> pos, dims |-> obj_dimensions]
    IN  IF cell \in DOMAIN g
        THEN [g EXCEPT ![cell] = <<rec>>]
        ELSE g @@ (cell :> <<rec>>)

\* Mutant of add_to_grid: the grid is rebuilt around the new record.
add_to_grid_fresh(c, g, pos, obj_dimensions) ==
    grid_cell(c, pos) :> <<[pos |-> pos, dims |-> obj_dimensions]>>

\* add_to_grid
add_to_grid(c, g, pos, obj_dimensions) ==
    LET cell == grid_cell(c, pos)
        rec == [pos |-> pos, dims |-> obj_dimensions]
    IN  IF cell \in DOMAIN g
        THEN [g EXCEPT ![cell] = Append(@, rec)]
        ELSE g @@ (cell :> <<rec>>)

\* positions.append((position, obj_dimensions))
append_position(plist, pos, obj_dimensions) ==
    Append(plist, [pos |-> pos, dims |-> obj_dimensions])

\* The positions one sampling can produce.  Circle: the radius is
\* sqrt(uniform(0, 1)) * R and uniform(0, 1) is random(), which is below 1;
\* DistributeWithinCircle.py draws the radius as uniform(0, R) itself.
random_position(c) ==
    IF c.variant = "DistributeWithinCircle"
    THEN {p \in Lattice : Dist2(p, c.area_center) <= c.area_radius * c.area_radius}
    ELSE IF c.is_circle
    THEN {p \in Lattice :
            \/ p = c.area_center
            \/ Dist2(p, c.area_center) < c.area_radius * c.area_radius}
    ELSE IF c.variant = "Addon"
    THEN {p \in Lattice :
            /\ Uniform(2 * c.area_center[1] - c.area_size[1], 2 * p[1],
                       2 * c.area_center[1] + c.area_size[1])
            /\ Uniform(2 * c.area_center[2] - c.area_size[2], 2 * p[2],
                       2 * c.area_center[2] + c.area_size[2])}
    ELSE {p \in Lattice :
            /\ Uniform(c.area_min[1], p[1], c.area_max[1])
            /\ Uniform(c.area_min[2], p[2], c.area_max[2])}

\* --------------------------------------------------------------- control flow
\* Where the run goes when the copies of the current object are over:
\* the next pass of "for obj in selected_objects", or the end.
next_object(c, i) ==
    IF i < Len(c.selected_objects)
    THEN [pc |-> "orig", obj_index |-> i + 1, dup_index |-> 0]
    ELSE [pc |-> "done", obj_index |-> i, dup_index |-> 0]

\* Mutant of skips_duplicates: distribute_only is not looked at.
skips_duplicates_never(c) == FALSE

\* "if distribute_only: continue" (the add-on alone has the parameter).
skips_duplicates(c) == c.variant = "Addon" /\ c.distribute_only

\* Where the run goes after the original's loop (break or else).
after_original(c, i) ==
    IF skips_duplicates(c) \/ c.num_duplicates <= 0
    THEN next_object(c, i)
    ELSE [pc |-> "dup", obj_index |-> i, dup_index |-> 0]

\* Where the run goes after one duplicate's loop: "for _ in range(num_duplicates)".
after_duplicate(c, i, d) ==
    IF d + 1 < c.num_duplicates
    THEN [pc |-> "dup", obj_index |-> i, dup_index |-> d + 1]
    ELSE next_object(c, i)

\* Mutant of has_attempt_left: one pass too many.
has_attempt_left_inclusive(a) == a <= AttemptBudget

\* "for attempt in range(1000)" has another pass to make.
has_attempt_left(a) == a < AttemptBudget

\* What the host sees of one copy: obj.location set or a linked copy, or the
\* "Could not place" message.
Placed(i, k, pos) == [item |-> i, copy |-> k, kind |-> "Placed", position |-> pos]

Failed(i, k) == [item |-> i, copy |-> k, kind |-> "Failed", position |-> NoPosition]

\* Mutant of commit_positions: the append is left out.
commit_positions_forgotten(c, plist, pos, obj_dimensions) == plist

\* The index after a commit: positions.append in the linear-scan scripts,
\* add_to_grid in the two grid scripts.
commit_positions(c, plist, pos, obj_dimensions) ==
    IF uses_grid(c) THEN plist ELSE append_position(plist, pos, obj_dimensions)

commit_grid(c, g, pos, obj_dimensions) ==
    IF uses_grid(c) THEN add_to_grid(c, g, pos, obj_dimensions) ELSE g

\* ------------------------------------------------------------------- actions
Init ==
    /\ cfg \in Configs
    /\ pc = "start"
    /\ obj_index = 0
    /\ dup_index = 0
    /\ attempt = 0
    /\ position = NoPosition
    /\ positions = <<>>
    /\ grid = <<>>
    /\ outcomes = <<>>
    /\ sampled = 0
    /\ location = [i \in 1 .. Len(cfg.selected_objects) |-> NoPosition]
    /\ linked = <<>>

GoTo(target) ==
    /\ pc' = target.pc
    /\ obj_index' = target.obj_index
    /\ dup_index' = target.dup_index
    /\ attempt' = 0

\* Mutant of Begin: an empty selection is raised as an error.
Begin_raises ==
    /\ pc = "start"
    /\ IF Len(cfg.selected_objects) = 0
       THEN pc' = "error" /\ UNCHANGED <<obj_index, dup_index, attempt>>
       ELSE GoTo([pc |-> "orig", obj_index |-> 1, dup_index |-> 0])
    /\ UNCHANGED <<cfg, position, positions, grid, outcomes, sampled, location, linked>>

\* "if not selected_objects: return", else the first pass of the outer loop.
Begin ==
    /\ pc = "start"
    /\ IF Len(cfg.selected_objects) = 0
       THEN pc' = "done" /\ UNCHANGED <<obj_index, dup_index, attempt>>
       ELSE GoTo([pc |-> "orig", obj_index |-> 1, dup_index |-> 0])
    /\ UNCHANGED <<cfg, position, positions, grid, outcomes, sampled, location, linked>>

\* Mutant of AttemptOriginal: the break is missing, the loop goes on after a
\* valid position was committed.
AttemptOriginal_without_break ==
    /\ pc = "orig"
    /\ has_attempt_left(attempt)
    /\ \E sample \in random_position(cfg) :
        LET obj_dimensions == cfg.selected_objects[obj_index]
            verdict == is_valid_position(cfg, sample, obj_dimensions, positions, grid)
        IN  /\ sampled' = sampled + 1
            /\ position' = sample
            /\ attempt' = attempt + 1
            /\ IF verdict = "raise"
               THEN /\ pc' = "error"
                    /\ UNCHANGED <<positions, grid, outcomes, location>>
               ELSE IF verdict = "valid"
               THEN /\ location' = [location EXCEPT ![obj_index] = sample]
                    /\ positions' = commit_positions(cfg, positions, sample, obj_dimensions)
                    /\ grid' = commit_grid(cfg, grid, sample, obj_dimensions)
                    /\ outcomes' = Append(outcomes, Placed(obj_index, 0, sample))
                    /\ UNCHANGED pc
               ELSE UNCHANGED <<pc, positions, grid, outcomes, location>>
    /\ UNCHANGED <<cfg, obj_index, dup_index, linked>>

\* One pass of the original's attempt loop.
AttemptOriginal ==
    /\ pc = "orig"
    /\ has_attempt_left(attempt)
    /\ \E sample \in random_position(cfg) :
        LET obj_dimensions == cfg.selected_objects[obj_index]
            verdict == is_valid_position(cfg, sample, obj_dimensions, positions, grid)
        IN  /\ sampled' = sampled + 1
            /\ position' = sample
            /\ IF verdict = "raise"
               THEN /\ pc' = "error"
                    /\ UNCHANGED <<obj_index, dup_index, attempt, positions, grid,
                                   outcomes, location, linked>>
               ELSE IF verdict = "valid"
               THEN /\ location' = [location EXCEPT ![obj_index] = sample]
                    /\ positions' = commit_positions(cfg, positions, sample, obj_dimensions)
                    /\ grid' = commit_grid(cfg, grid, sample, obj_dimensions)
                    /\ outcomes' = Append(outcomes, Placed(obj_index, 0, sample))
                    /\ GoTo(after_original(cfg, obj_index))
                    /\ UNCHANGED linked
               ELSE /\ attempt' = attempt + 1
                    /\ UNCHANGED <<pc, obj_index, dup_index, positions, grid,
                                   outcomes, location, linked>>
    /\ UNCHANGED cfg

\* Mutant of FailOriginal: a failed original takes its duplicates with it.
FailOriginal_skips_duplicates ==
    /\ pc = "orig"
    /\ ~has_attempt_left(attempt)
    /\ outcomes' = Append(outcomes, Failed(obj_index, 0))
    /\ GoTo(next_object(cfg, obj_index))
    /\ position' = NoPosition
    /\ UNCHANGED <<cfg, positions, grid, sampled, location, linked>>

\* The else of the original's attempt loop: "Could not place object".
FailOriginal ==
    /\ pc = "orig"
    /\ ~has_attempt_left(attempt)
    /\ outcomes' = Append(outcomes, Failed(obj_index, 0))
    /\ GoTo(after_original(cfg, obj_index))
    /\ position' = NoPosition
    /\ UNCHANGED <<cfg, positions, grid, sampled, location, linked>>

\* One pass of a duplicate's attempt loop.
AttemptDuplicate ==
    /\ pc = "dup"
    /\ has_attempt_left(attempt)
    /\ \E sample \in random_position(cfg) :
        LET obj_dimensions == cfg.selected_objects[obj_index]
            verdict == is_valid_position(cfg, sample, obj_dimensions, positions, grid)
        IN  /\ sampled' = sampled + 1
            /\ position' = sample
            /\ IF verdict = "raise"
               THEN /\ pc' = "error"
                    /\ UNCHANGED <<obj_index, dup_index, attempt, positions, grid,
                                   outcomes, linked>>
               ELSE IF verdict = "valid"
               THEN /\ linked' = Append(linked, [item |-> obj_index, position |-> sample])
                    /\ positions' = commit_positions(cfg, positions, sample, obj_dimensions)
                    /\ grid' = commit_grid(cfg, grid, sample, obj_dimensions)
                    /\ outcomes' = Append(outcomes,
                                          Placed(obj_index, dup_index + 1, sample))
                    /\ GoTo(after_duplicate(cfg, obj_index, dup_index))
               ELSE /\ attempt' = attempt + 1
                    /\ UNCHANGED <<pc, obj_index, dup_index, positions, grid,
                                   outcomes, linked>>
    /\ UNCHANGED <<cfg, location>>

\* The else of a duplicate's attempt loop: "Could not place duplicate".
FailDuplicate ==
    /\ pc = "dup"
    /\ ~has_attempt_left(attempt)
    /\ outcomes' = Append(outcomes, Failed(obj_index, dup_index + 1))
    /\ GoTo(after_duplicate(cfg, obj_index, dup_index))
    /\ position' = NoPosition
    /\ UNCHANGED <<cfg, positions, grid, sampled, location, linked>>

Next ==
    \/ Begin
    \/ AttemptOriginal
    \/ FailOriginal
    \/ AttemptDuplicate
    \/ FailDuplicate

Spec == Init /\ [][Next]_vars

\* The interpreter runs the script to its end: no step that can be taken is
\* put off for ever.
FairSpec == Spec /\ WF_vars(Next)


\* ------------------------------------------------------- what a run produced
PlacedIndexes == {k \in 1 .. Len(outcomes) : outcomes[k].kind = "Placed"}
FailedIndexes == {k \in 1 .. Len(outcomes) : outcomes[k].kind = "Failed"}

\* Copies requested for each object: the original and its duplicates.
CopiesPerObject(c) ==
    IF (c.variant = "Addon" /\ c.distribute_only) \/ c.num_duplicates < 0
    THEN 1
    ELSE 1 + c.num_duplicates

\* Copies requested in the whole run.
TotalCopies(c) == Len(c.selected_objects) * CopiesPerObject(c)

RECURSIVE RecordCount(_, _)
RecordCount(g, cells) ==
    IF cells = {} THEN 0
    ELSE LET cell == CHOOSE x \in cells : TRUE
         IN  Len(g[cell]) + RecordCount(g, cells \ {cell})

\* Records held by the index: the positions list and the cells of the grid.
IndexSize == Len(positions) + RecordCount(grid, DOMAIN grid)

\* The Region of the data model: radius > 0, half-extents > 0.
RegionIsValid(c) ==
    IF c.is_circle THEN c.area_radius > 0
    ELSE IF c.variant = "Addon" THEN c.area_size[1] > 0 /\ c.area_size[2] > 0
    ELSE c.area_max[1] > c.area_min[1] /\ c.area_max[2] > c.area_min[2]

\* p lies within the Region.
InRegion(c, p) ==
    IF c.is_circle
    THEN Dist2(p, c.area_center) <= c.area_radius * c.area_radius
    ELSE IF c.variant = "Addon"
    THEN /\ 2 * p[1] >= 2 * c.area_center[1] - c.area_size[1]
         /\ 2 * p[1] <= 2 * c.area_center[1] + c.area_size[1]
         /\ 2 * p[2] >= 2 * c.area_center[2] - c.area_size[2]
         /\ 2 * p[2] <= 2 * c.area_center[2] + c.area_size[2]
    ELSE /\ c.area_min[1] <= p[1] /\ p[1] <= c.area_max[1]
         /\ c.area_min[2] <= p[2] /\ p[2] <= c.area_max[2]

\* p lies inside an exclusion zone: an open disc, or a closed box.
InSomeExclusionZone(c, p) ==
    IF c.variant = "Addon"
    THEN IF c.is_circle
         THEN c.zone_radius > 0 /\ Dist2(p, c.zone_center) < c.zone_radius * c.zone_radius
         ELSE /\ 2 * p[1] >= 2 * c.zone_center[1] - c.zone_size[1]
              /\ 2 * p[1] <= 2 * c.zone_center[1] + c.zone_size[1]
              /\ 2 * p[2] >= 2 * c.zone_center[2] - c.zone_size[2]
              /\ 2 * p[2] <= 2 * c.zone_center[2] + c.zone_size[2]
    ELSE \E k \in 1 .. Len(c.exclusion_zones) :
            LET z == c.exclusion_zones[k]
            IN  IF c.is_circle
                THEN z.radius > 0 /\ Dist2(p, z.center) < z.radius * z.radius
                ELSE /\ z.min[1] <= p[1] /\ p[1] <= z.max[1]
                     /\ z.min[2] <= p[2] /\ p[2] <= z.max[2]

\* distance(p1, p2) >= max(f1.x, f1.y)/2 + max(f2.x, f2.y)/2 + padding
Separated(p1, f1, p2, f2, padding) ==
    LET m == Max(f1.x, f1.y) + Max(f2.x, f2.y) + 2 * padding
    IN  m <= 0 \/ 4 * Dist2(p1, p2) >= m * m

\* Footprint of the copy an outcome is about.
FootprintOf(o) == cfg.selected_objects[o.item]

\* The two positions lie in each other's 3x3 neighbourhood of cells.
InNeighbourhood(c, p1, p2) ==
    LET c1 == grid_cell(c, p1)
        c2 == grid_cell(c, p2)
    IN  /\ c1[1] - c2[1] \in -1 .. 1
        /\ c1[2] - c2[2] \in -1 .. 1

\* --------------------------------------------------------------------- claims
\* C1  Containment: whenever the Region is well formed (radius, extents > 0),
\* every Placed outcome's position lies within the Region and outside every
\* exclusion zone, however many zones there are.
Containment ==
    RegionIsValid(cfg) =>
        \A k \in PlacedIndexes :
            /\ InRegion(cfg, outcomes[k].position)
            /\ ~InSomeExclusionZone(cfg, outcomes[k].position)

\* A finished run over two exclusion zones that placed a copy and lost one.
ContainmentWitness ==
    /\ pc = "done"
    /\ RegionIsValid(cfg)
    /\ Len(cfg.exclusion_zones) = 2
    /\ PlacedIndexes # {}
    /\ FailedIndexes # {}

\* C2  Non-overlap: any two Placed outcomes keep the separation distance,
\* unless (grid scripts) they lie outside each other's 3x3 neighbourhood.
NonOverlap ==
    \A j \in PlacedIndexes : \A k \in PlacedIndexes :
        (j < k /\ (~uses_grid(cfg)
                   \/ InNeighbourhood(cfg, outcomes[j].position, outcomes[k].position)))
        => Separated(outcomes[j].position, FootprintOf(outcomes[j]),
                     outcomes[k].position, FootprintOf(outcomes[k]), cfg.padding)

\* A grid run with two placements in different, neighbouring cells.
NonOverlapWitness ==
    /\ pc = "done"
    /\ uses_grid(cfg)
    /\ \E j \in PlacedIndexes : \E k \in PlacedIndexes :
        /\ j < k
        /\ InNeighbourhood(cfg, outcomes[j].position, outcomes[k].position)
        /\ grid_cell(cfg, outcomes[j].position) # grid_cell(cfg, outcomes[k].position)

\* C3  Termination bound: every run ends; it makes at most T x B sampling
\* iterations, and a sample is drawn for a copy only while that copy has
\* drawn fewer than B (attempt counts the draws of the copy in hand).
TerminationBound ==
    /\ <>(pc \in {"done", "error"})
    /\ [](sampled <= TotalCopies(cfg) * AttemptBudget /\ attempt <= AttemptBudget)
    /\ [][sampled' # sampled => attempt < AttemptBudget]_vars

\* A finished run of several copies that used the whole budget of each.
TerminationBoundWitness ==
    /\ pc = "done"
    /\ TotalCopies(cfg) >= 2
    /\ sampled = TotalCopies(cfg) * AttemptBudget

\* C4  A failed copy does not stop the run, and the result is complete: while
\* copies remain the run is still placing, and a finished run holds exactly
\* one outcome for every requested copy of every object.
CompleteOutcomes ==
    /\ Len(outcomes) <= TotalCopies(cfg)
    /\ pc \in {"orig", "dup"} => Len(outcomes) < TotalCopies(cfg)
    /\ pc = "done" =>
        /\ Len(outcomes) = TotalCopies(cfg)
        /\ \A i \in 1 .. Len(cfg.selected_objects) :
            \A k \in 0 .. CopiesPerObject(cfg) - 1 :
                Cardinality({n \in 1 .. Len(outcomes) :
                                outcomes[n].item = i /\ outcomes[n].copy = k}) = 1

\* A finished run whose original failed and whose duplicate was placed.
CompleteOutcomesWitness ==
    /\ pc = "done"
    /\ \E j \in FailedIndexes : \E k \in PlacedIndexes :
        /\ outcomes[j].copy = 0
        /\ outcomes[k].item = outcomes[j].item
        /\ outcomes[k].copy > 0

\* C5  Ordering and visibility: outcomes come object by object in the
\* caller's order, the original before its duplicates, and every placement
\* made so far is in the index (in the cell of its position, or in the
\* positions list) whenever a later copy is validated.
OrderingAndVisibility ==
    /\ \A n \in 1 .. Len(outcomes) :
        /\ outcomes[n].item = ((n - 1) \div CopiesPerObject(cfg)) + 1
        /\ outcomes[n].copy = (n - 1) % CopiesPerObject(cfg)
    /\ \A n \in PlacedIndexes :
        LET rec == [pos |-> outcomes[n].position, dims |-> FootprintOf(outcomes[n])]
        IN  IF ~uses_grid(cfg)
            THEN \E k \in 1 .. Len(positions) : positions[k] = rec
            ELSE /\ grid_cell(cfg, rec.pos) \in DOMAIN grid
                 /\ \E k \in 1 .. Len(grid[grid_cell(cfg, rec.pos)]) :
                        grid[grid_cell(cfg, rec.pos)][k] = rec

\* The second duplicate is being validated after the original and the first
\* duplicate were placed.
OrderingAndVisibilityWitness ==
    /\ pc = "dup"
    /\ dup_index = 1
    /\ Len(outcomes) = 2
    /\ PlacedIndexes = {1, 2}

\* C6  The index holds the Placed copies and nothing else: its number of
\* records is the number of Placed outcomes, so a Failed copy adds none.
IndexHoldsPlacedOnly == IndexSize = Cardinality(PlacedIndexes)

\* A copy failed and a later copy was placed.
IndexHoldsPlacedOnlyWitness ==
    \E j \in FailedIndexes : \E k \in PlacedIndexes : j < k

\* The scenario of C7: circle (0,0) radius 5, a circular zone of the same
\* centre and radius, one object.
FullyCovered(c) ==
    /\ c.is_circle
    /\ c.area_center = Origin
    /\ c.area_radius = 5
    /\ Len(c.selected_objects) = 1
    /\ IF c.variant = "Addon"
       THEN c.zone_center = Origin /\ c.zone_radius = 5
       ELSE \E k \in 1 .. Len(c.exclusion_zones) :
                c.exclusion_zones[k] = CircleZone(Origin, 5)

\* C7  Fully covered region: every outcome is Failed, each after exactly
\* AttemptBudget samples (the samples drawn are AttemptBudget per outcome plus
\* those of the copy in hand), the index stays empty and no object is moved.
FullyCoveredFails ==
    FullyCovered(cfg) =>
        /\ \A n \in 1 .. Len(outcomes) : outcomes[n].kind = "Failed"
        /\ sampled = AttemptBudget * Len(outcomes) + attempt
        /\ IndexSize = 0
        /\ \A i \in DOMAIN location : location[i] = NoPosition
        /\ linked = <<>>
        /\ pc # "error"

\* The covered run is over and its object was reported as Failed.
FullyCoveredFailsWitness ==
    /\ FullyCovered(cfg)
    /\ pc = "done"
    /\ FailedIndexes # {}
    /\ sampled = TotalCopies(cfg) * AttemptBudget

\* Positions a copy of footprint f may take in c: sampled, in no zone.
FreePositions(c) == {p \in random_position(c) : ~InSomeExclusionZone(c, p)}

\* A set of positions that are pairwise separated for footprint f.
IsPacking(S, f, padding) ==
    \A p \in S : \A q \in S : p # q => Separated(p, f, q, f, padding)

\* The scenario of C8: one object, three copies, room for two and not three.
CapacityTwo(c) ==
    /\ RegionIsValid(c)
    /\ Len(c.selected_objects) = 1
    /\ CopiesPerObject(c) = 3
    /\ \E S \in SUBSET FreePositions(c) :
        Cardinality(S) = 2 /\ IsPacking(S, c.selected_objects[1], c.padding)
    /\ ~\E S \in SUBSET FreePositions(c) :
        Cardinality(S) = 3 /\ IsPacking(S, c.selected_objects[1], c.padding)

\* C8 as claimed: exactly 2 Placed and 1 Failed, the Failed one last.
CapacityTwoAsClaimed ==
    (pc = "done" /\ CapacityTwo(cfg)) =>
        /\ Cardinality(PlacedIndexes) = 2
        /\ FailedIndexes = {3}

\* C8 as amended: three outcomes; in the linear-scan add-on at most 2 of them
\* are Placed and at least 1 is Failed (which one is not fixed).
CapacityTwoAtMostTwo ==
    (pc = "done" /\ CapacityTwo(cfg)) =>
        /\ Len(outcomes) = 3
        /\ cfg.variant = "Addon" =>
            /\ Cardinality(PlacedIndexes) <= 2
            /\ Cardinality(FailedIndexes) >= 1

\* The add-on placed two copies and failed the third.
CapacityTwoAtMostTwoWitness ==
    /\ CapacityTwo(cfg)
    /\ cfg.variant = "Addon"
    /\ pc = "done"
    /\ PlacedIndexes = {1, 2}
    /\ FailedIndexes = {3}

\* A non-positive radius, extent or cell size.
InvalidConfiguration(c) ==
    \/ ~RegionIsValid(c)
    \/ (uses_grid(c) /\ GridNum(c) <= 0)

\* C9 as claimed: an invalid configuration stops the run before any sample is
\* drawn, any placement is committed or any object is moved.
FailFast ==
    InvalidConfiguration(cfg) =>
        /\ sampled = 0
        /\ outcomes = <<>>
        /\ IndexSize = 0
        /\ \A i \in DOMAIN location : location[i] = NoPosition
        /\ linked = <<>>

\* s is the beginning of t.
IsPrefix(s, t) == Len(s) <= Len(t) /\ SubSeq(t, 1, Len(s)) = s

\* C11  Append-only index: no step of a run lowers the number of occupied
\* cells or the number of records, and every record stays where it was put,
\* in the same cell at the same place of its list, position and footprint
\* unchanged.
AppendOnlyIndex ==
    [][/\ DOMAIN grid \subseteq DOMAIN grid'
       /\ \A cell \in DOMAIN grid : IsPrefix(grid[cell], grid'[cell])
       /\ IsPrefix(positions, positions')
       /\ Cardinality(DOMAIN grid') >= Cardinality(DOMAIN grid)
       /\ IndexSize' >= IndexSize]_vars

\* A grid that has grown both ways: two records in one cell, and a second
\* occupied cell.
AppendOnlyIndexWitness ==
    /\ Cardinality(DOMAIN grid) >= 2
    /\ \E cell \in DOMAIN grid : Len(grid[cell]) >= 2

\* C12  Empty input: with no object selected the run goes straight to its
\* end, raises no error, has no outcome, draws no sample, leaves the index
\* empty and moves or links nothing.
EmptyInputNoOp ==
    /\ [](Len(cfg.selected_objects) = 0 =>
            /\ pc \in {"start", "done"}
            /\ outcomes = <<>>
            /\ sampled = 0
            /\ IndexSize = 0
            /\ location = <<>>
            /\ linked = <<>>)
    /\ [][(Len(cfg.selected_objects) = 0 /\ pc = "start") => pc' = "done"]_vars

\* The run with nothing selected, asked for duplicates, has returned.
EmptyInputNoOpWitness ==
    /\ Len(cfg.selected_objects) = 0
    /\ cfg.num_duplicates > 0
    /\ pc = "done"

\* Every record the index holds, wherever it is kept.
AllRecords ==
    {positions[k] : k \in 1 .. Len(positions)}
    \cup UNION {{grid[cell][k] : k \in 1 .. Len(grid[cell])} : cell \in DOMAIN grid}

\* A scan of all committed placements rejects a copy of footprint f at pos.
FullScanRejects(c, pos, f) ==
    \E rec \in AllRecords : ~Separated(pos, f, rec.pos, rec.dims, c.padding)

\* The grid check passes no candidate the full scan rejects, and no two
\* committed placements overlap.
NothingMissed ==
    /\ \A pos \in random_position(cfg) : \A i \in 1 .. Len(cfg.selected_objects) :
            FullScanRejects(cfg, pos, cfg.selected_objects[i])
                => overlaps_grid(cfg, pos, cfg.selected_objects[i], grid)
    /\ \A j \in PlacedIndexes : \A k \in PlacedIndexes :
            j < k => Separated(outcomes[j].position, FootprintOf(outcomes[j]),
                               outcomes[k].position, FootprintOf(outcomes[k]), cfg.padding)

\* max(width, height)/2 + padding <= cellSize for every footprint.
RadiusFitsCell(c) ==
    \A i \in 1 .. Len(c.selected_objects) :
        (Max(c.selected_objects[i].x, c.selected_objects[i].y) + 2 * c.padding) * GridDen(c)
            <= 2 * GridNum(c)

\* The separation distance of every two footprints is at most cellSize.
SeparationFitsCell(c) ==
    \A i \in 1 .. Len(c.selected_objects) : \A j \in 1 .. Len(c.selected_objects) :
        (Max(c.selected_objects[i].x, c.selected_objects[i].y)
            + Max(c.selected_objects[j].x, c.selected_objects[j].y)
            + 2 * c.padding) * GridDen(c) <= 2 * GridNum(c)

\* C13 as claimed: when no footprint's separation radius plus padding
\* exceeds cellSize, the 3x3 neighbourhood misses nothing.
NeighbourhoodSufficesAsClaimed ==
    (uses_grid(cfg) /\ GridNum(cfg) > 0 /\ RadiusFitsCell(cfg)) => NothingMissed

\* C13 as amended: when the separation distance of any two footprints (both
\* separation radii plus padding) does not exceed cellSize, the grid check
\* rejects every candidate a full scan rejects and no overlapping pair is
\* committed.
NeighbourhoodSuffices ==
    (uses_grid(cfg) /\ GridNum(cfg) > 0 /\ SeparationFitsCell(cfg)) => NothingMissed

\* Under the amended condition a candidate is too close to a record that
\* lies in a neighbouring cell, not in the candidate's own.
NeighbourhoodSufficesWitness ==
    /\ uses_grid(cfg)
    /\ GridNum(cfg) > 0
    /\ SeparationFitsCell(cfg)
    /\ \E pos \in random_position(cfg) : \E rec \in AllRecords :
        /\ ~Separated(pos, cfg.selected_objects[1], rec.pos, rec.dims, cfg.padding)
        /\ grid_cell(cfg, pos) # grid_cell(cfg, rec.pos)

\* n = floor(x / cellSize): n * cellSize <= x < (n + 1) * cellSize, the
\* inequalities turned round for a negative cellSize.
IsFloorOfQuotient(n, x, c) ==
    IF GridNum(c) > 0
    THEN n * GridNum(c) <= x * GridDen(c) /\ x * GridDen(c) < (n + 1) * GridNum(c)
    ELSE n * GridNum(c) >= x * GridDen(c) /\ x * GridDen(c) > (n + 1) * GridNum(c)

\* The places <<cell, k>> of the grid that hold rec.
PlacesOf(rec) ==
    {pl \in UNION {{<<cell, k>> : k \in 1 .. Len(grid[cell])} : cell \in DOMAIN grid} :
        grid[pl[1]][pl[2]] = rec}

\* C14  Index cell invariant: every record of the grid lies in the cell
\* (floor(x / cellSize), floor(y / cellSize)) of its own position, negative
\* coordinates included, and every placement of a grid script is held at
\* exactly one place of the grid.
IndexCellInvariant ==
    /\ \A cell \in DOMAIN grid : \A k \in 1 .. Len(grid[cell]) :
        /\ IsFloorOfQuotient(cell[1], grid[cell][k].pos[1], cfg)
        /\ IsFloorOfQuotient(cell[2], grid[cell][k].pos[2], cfg)
    /\ uses_grid(cfg) =>
        \A n \in PlacedIndexes :
            Cardinality(PlacesOf([pos |-> outcomes[n].position,
                                  dims |-> FootprintOf(outcomes[n])])) = 1

\* The grid holds a record left of the origin whose x is no multiple of the
\* cell size, and a record right of it.
IndexCellInvariantWitness ==
    /\ uses_grid(cfg)
    /\ GridNum(cfg) > 0
    /\ \E r1 \in AllRecords : \E r2 \in AllRecords :
        /\ r1.pos[1] < 0
        /\ (r1.pos[1] * GridDen(cfg)) % GridNum(cfg) # 0
        /\ r2.pos[1] > 0

\* The copy the attempt loop in hand is about.
CopyInHand == <<pc, obj_index, dup_index>>

\* C15  First valid candidate wins: a sample that fails the validation
\* against the index as it stands is passed over and changes nothing in the
\* index or the outcomes; a sample that passes it is committed at once, as
\* that copy's Placed position and as exactly one new record, and the run
\* leaves that copy, so that no sample is drawn for it after the commit; no
\* step that draws no sample adds a record.  The index does not change
\* between a copy's samples, so it is the index as it was when the copy
\* started.
FirstValidWins ==
    [][IF sampled' # sampled
       THEN /\ sampled' = sampled + 1
            /\ pc \in {"orig", "dup"}
            /\ pc' # "error" =>
                IF is_valid_position(cfg, position', cfg.selected_objects[obj_index],
                                     positions, grid) = "valid"
                THEN /\ Len(outcomes') = Len(outcomes) + 1
                     /\ outcomes'[Len(outcomes')].kind = "Placed"
                     /\ outcomes'[Len(outcomes')].position = position'
                     /\ outcomes'[Len(outcomes')].item = obj_index
                     /\ IndexSize' = IndexSize + 1
                     /\ [pos |-> position', dims |-> cfg.selected_objects[obj_index]]
                            \in AllRecords'
                     /\ CopyInHand' # CopyInHand
                     /\ attempt' = 0
                ELSE /\ outcomes' = outcomes
                     /\ positions' = positions
                     /\ grid' = grid
                     /\ CopyInHand' = CopyInHand
                     /\ attempt' = attempt + 1
       ELSE /\ positions' = positions
            /\ grid' = grid]_vars

\* A copy was placed by a sample that followed a rejected one: the attempt
\* counter stood at 1 or more before the commit.  Seen afterwards as more
\* samples drawn than outcomes, none of them Failed.
FirstValidWinsWitness ==
    /\ PlacedIndexes # {}
    /\ FailedIndexes = {}
    /\ attempt = 0
    /\ sampled > Len(outcomes)
    /\ position = outcomes[Len(outcomes)].position

\* C16 as claimed: a candidate is rejected by the zones exactly when it lies
\* strictly inside a circular zone or within a rectangular one, edges
\* included.  No Placed position is excluded by any zone; and while the
\* index is still empty in a well-formed Region, where a sample can be
\* rejected for its zones alone, every rejected sample is one that some zone
\* excludes (a sample at distance exactly zone.radius is never rejected).
ZoneBoundaryAsClaimed ==
    /\ \A k \in PlacedIndexes : ~InSomeExclusionZone(cfg, outcomes[k].position)
    /\ (/\ pc \in {"orig", "dup"}
        /\ attempt >= 1
        /\ IndexSize = 0
        /\ RegionIsValid(cfg))
       => InSomeExclusionZone(cfg, position)

\* C17  Distribute-only mode: with distribute_only set the run never enters
\* a duplicate's loop and links no copy, whatever num_duplicates is; it
\* deals with each object once (copy 0 only), draws at most AttemptBudget
\* samples per object and ends with exactly one outcome per object, as a run
\* with num_duplicates = 0 does.
DistributeOnlyMode ==
    (cfg.variant = "Addon" /\ cfg.distribute_only) =>
        /\ pc # "dup"
        /\ linked = <<>>
        /\ \A n \in 1 .. Len(outcomes) : outcomes[n].copy = 0 /\ outcomes[n].item = n
        /\ Len(outcomes) <= Len(cfg.selected_objects)
        /\ sampled <= Len(cfg.selected_objects) * AttemptBudget
        /\ pc = "done" => Len(outcomes) = Len(cfg.selected_objects)

\* A distribute-only run asked for two duplicates has ended after placing
\* its one object.
DistributeOnlyModeWitness ==
    /\ cfg.variant = "Addon"
    /\ cfg.distribute_only
    /\ cfg.num_duplicates >= 2
    /\ pc = "done"
    /\ PlacedIndexes = {1}

\* C18  Non-overlap in the linear-scan scripts: whatever the footprints,
\* every two Placed positions of a script that scans the whole positions
\* list are at least max(f1.x, f1.y)/2 + max(f2.x, f2.y)/2 + padding apart.
LinearScanNonOverlap ==
    ~uses_grid(cfg) =>
        \A j \in PlacedIndexes : \A k \in PlacedIndexes :
            j # k => Separated(outcomes[j].position, FootprintOf(outcomes[j]),
                               outcomes[k].position, FootprintOf(outcomes[k]),
                               cfg.padding)

\* A script without duplicates has placed two objects, one of them 6 wide,
\* after at least one sample was rejected.
LinearScanNonOverlapWitness ==
    /\ cfg.variant \in {"DistributeWithinCircle", "DistributeWithinSquare"}
    /\ pc = "done"
    /\ PlacedIndexes = {1, 2}
    /\ sampled > 2
    /\ \E i \in 1 .. 2 : cfg.selected_objects[i].x = 6
====
